---- MODULE Spec2Model ----
(***************************************************************************)
(* Model of model_factory.py: f_parse_component reads a module type tag    *)
(* and a parameter dictionary, builds the matching layer and updates the   *)
(* tracked tensor shape current_input_dim.                                 *)
(*                                                                         *)
(* Encoding.  A Python list is a sequence; the Python index i is the       *)
(* sequence index i+1.  A        *)
(* parameter dictionary is a record; "key in param.keys()" is membership   *)
(* in DOMAIN param.  A constructed module is a record of its class name    *)
(* and the arguments the constructor was given.  A raised exception is     *)
(* the field raised of the call's outcome ("" when the call returns).      *)
(***************************************************************************)
EXTENDS Integers, Sequences, FiniteSets, TLC

VARIABLES pc, input_dim, current_input_dim, call, param, module, stdout, layers

vars == <<pc, input_dim, current_input_dim, call, param, module, stdout, layers>>

-----------------------------------------------------------------------------
(* Bounds of the model. *)
MaxDim == 4
MaxChan == 3
MaxKernel == 2
MaxLayers == 3

-----------------------------------------------------------------------------
(* Python values. *)

\* the value of an unbound / absent object
None == [cls |-> "None"]

\* Python list indexing l[i] and item assignment l[i] = v, for i >= 0
InRange(l, i) == i < Len(l)
Idx(l, i) == l[i + 1]
SetIdx(l, i, v) == [l EXCEPT ![i + 1] = v]
\* l[-1] and l[-1] = v; the shapes here are never empty
Last(l) == l[Len(l)]
SetLast(l, v) == [l EXCEPT ![Len(l)] = v]

\* param.key = v, creating the key when absent
SetAttr(p, key, v) == [k \in DOMAIN p \cup {key} |-> IF k = key THEN v ELSE p[k]]

\* outcome of a call that returns (module, current_input_dim)
Ret(m, p, dim, out) ==
    [raised |-> "", module |-> m, param |-> p, current_input_dim |-> dim, stdout |-> out]

\* outcome of a call that raises: the in-place changes made so far remain
Raise(exc, p, dim, out) ==
    [raised |-> exc, module |-> None, param |-> p, current_input_dim |-> dim, stdout |-> out]

-----------------------------------------------------------------------------
f_get_next_size_NoPlusOne(in_L, k, s) == (in_L - k + 1) \div s

(* f_get_next_size: int(np.floor((in_L-k)/s+1)), for s >= 1 *)
f_get_next_size(in_L, k, s) == ((in_L - k) \div s) + 1

(* f_get_activation: the names of the if/elif chain; any other name leaves  *)
(* the local variable activation unbound and the return raises.             *)
KnownActivations == {"Sigmoid", "Softmax", "ReLU", "LeakyReLU", "PReLU"}

f_get_activation(activation_type) ==
    IF activation_type \in KnownActivations
    THEN [raised |-> "", activation |-> [cls |-> activation_type]]
    ELSE [raised |-> "UnboundLocalError", activation |-> None]

-----------------------------------------------------------------------------
(* The branches of f_parse_component, in source order.  Each takes the      *)
(* parameter dictionary and the incoming shape and gives the call's outcome. *)

\* 'LayerNorm'; an integer normalized_shape n is written <<n>> (what
\* nn.LayerNorm makes of it), so the sentinel -1 is <<-1>>
Branch_LayerNorm(p, cid) ==
    LET p1 == IF p.normalized_shape = <<-1>>
              THEN SetAttr(p, "normalized_shape", Tail(cid))
              ELSE p
    IN  Ret([cls |-> "LayerNorm", normalized_shape |-> p1.normalized_shape], p1, cid, <<>>)

Branch_BatchNorm1d(p, cid) ==
    LET p1 == IF p.num_features = -1 THEN SetAttr(p, "num_features", Last(cid)) ELSE p
        p2 == IF "affine" \notin DOMAIN p1 THEN SetAttr(p1, "affine", TRUE) ELSE p1
    IN  Ret([cls |-> "BatchNorm1d", num_features |-> p2.num_features, affine |-> p2.affine],
            p2, cid, <<>>)

Branch_BatchNorm1dT(p, cid) ==
    LET p1 == IF p.num_features = -1 THEN SetAttr(p, "num_features", Last(cid)) ELSE p
    IN  Ret([cls |-> "nnBatchNorm1dT", num_features |-> p1.num_features], p1, cid, <<>>)

Branch_BatchNorm2d_FromLast(p, cid) ==
    LET p1 == IF p.num_features = -1 THEN SetAttr(p, "num_features", Last(cid)) ELSE p
    IN  Ret([cls |-> "BatchNorm2d", num_features |-> p1.num_features], p1, cid, <<>>)

Branch_BatchNorm2d(p, cid) ==
    LET p1 == IF p.num_features = -1 THEN SetAttr(p, "num_features", Idx(cid, 1)) ELSE p
    IN  Ret([cls |-> "BatchNorm2d", num_features |-> p1.num_features], p1, cid, <<>>)

\* 'SincNet' and 'Conv1d' differ in the class they construct only
Conv1dLike(cls, p, cid) ==
    LET p1 == IF p.in_channels = -1 THEN SetAttr(p, "in_channels", Idx(cid, 1)) ELSE p
        m  == [cls |-> cls, in_channels |-> p1.in_channels, out_channels |-> p1.out_channels,
               kernel_size |-> p1.kernel_size, stride |-> p1.stride]
        d1 == SetIdx(cid, 1, p1.out_channels)
    IN  IF ~InRange(cid, 2) THEN Raise("IndexError", p1, d1, <<>>)
        ELSE Ret(m, p1, SetIdx(d1, 2, f_get_next_size(Idx(d1, 2), p1.kernel_size, p1.stride)),
                 <<>>)

Branch_SincNet(p, cid) == Conv1dLike("SincConv_fast", p, cid)

Branch_Conv1d(p, cid) == Conv1dLike("Conv1d", p, cid)

Branch_Conv1dTCN(p, cid) ==
    LET p1 == IF p.in_channels = -1 THEN SetAttr(p, "in_channels", Idx(cid, 1)) ELSE p
        m  == [cls |-> "TemporalConvNet", num_inputs |-> p1.in_channels,
               num_channels |-> p1.num_channels]
    IN  Ret(m, p1, SetIdx(cid, 1, Last(p1.num_channels)), <<>>)

\* the shape update shared by 'Conv2d' and 'Conv2dDS' (lines 407-410, 418-421)
Conv2dDims(p, cid) ==
    LET d1 == SetIdx(cid, 1, p.out_channels)
    IN  IF p.padding.tag = "same" THEN [raised |-> "", dim |-> d1]
        ELSE IF ~InRange(d1, 2) THEN [raised |-> "IndexError", dim |-> d1]
        ELSE LET d2 == SetIdx(d1, 2, f_get_next_size(Idx(d1, 2), Idx(p.kernel_size, 0),
                                                     Idx(p.stride, 0)))
             IN  IF ~InRange(d2, 3) THEN [raised |-> "IndexError", dim |-> d2]
                 ELSE [raised |-> "",
                       dim |-> SetIdx(d2, 3, f_get_next_size(Idx(d2, 3), Idx(p.kernel_size, 1),
                                                             Idx(p.stride, 1)))]

\* a padding is [tag |-> "valid"], [tag |-> "same"] or [tag |-> "num", n |-> p]
Valid == [tag |-> "valid"]

Branch_Conv2d(p, cid) ==
    LET p1 == IF p.in_channels = -1 THEN SetAttr(p, "in_channels", Idx(cid, 1)) ELSE p
        p2 == IF "padding" \notin DOMAIN p1 THEN SetAttr(p1, "padding", Valid) ELSE p1
        m  == [cls |-> "Conv2d", in_channels |-> p2.in_channels, out_channels |-> p2.out_channels,
               kernel_size |-> p2.kernel_size, stride |-> p2.stride, padding |-> p2.padding]
        r  == Conv2dDims(p2, cid)
    IN  \* nn.Conv2d refuses padding='same' with a stride other than 1 (ValueError)
        IF p2.padding.tag = "same" /\ p2.stride # <<1, 1>> THEN Raise("ValueError", p2, cid, <<>>)
        ELSE IF r.raised # "" THEN Raise(r.raised, p2, r.dim, <<>>)
        ELSE Ret(m, p2, r.dim, <<>>)

\* depthwise_separable_conv(nin, kernels_per_layer, nout, kernel_size, padding):
\* its two nn.Conv2d are built with no stride argument
depthwise_separable_conv(nin, kernels_per_layer, nout, kernel_size, padding) ==
    [cls |-> "depthwise_separable_conv",
     depthwise |-> [cls |-> "Conv2d", in_channels |-> nin,
                    out_channels |-> nin * kernels_per_layer, kernel_size |-> kernel_size,
                    stride |-> <<1, 1>>, padding |-> padding, groups |-> nin],
     pointwise |-> [cls |-> "Conv2d", in_channels |-> nin * kernels_per_layer,
                    out_channels |-> nout, kernel_size |-> <<1, 1>>, stride |-> <<1, 1>>,
                    padding |-> [tag |-> "num", n |-> 0], groups |-> 1]]

Branch_Conv2dDS(p, cid) ==
    LET p1 == IF p.in_channels = -1 THEN SetAttr(p, "in_channels", Idx(cid, 1)) ELSE p
        p2 == IF "padding" \notin DOMAIN p1 THEN SetAttr(p1, "padding", Valid) ELSE p1
        m  == depthwise_separable_conv(p2.in_channels, 1, p2.out_channels, p2.kernel_size,
                                       p2.padding)
        r  == Conv2dDims(p2, cid)
    IN  IF r.raised # "" THEN Raise(r.raised, p2, r.dim, <<>>) ELSE Ret(m, p2, r.dim, <<>>)

MsgPadding == "only work for padding=same"
MsgStride == "only work for stride=1"
MsgNext == "param.out_channels should = param.in_channels because of residual connection"

Branch_Conv2dRes(p, cid) ==
    LET p1  == IF p.in_channels = -1 THEN SetAttr(p, "in_channels", Idx(cid, 1)) ELSE p
        out == (IF p1.padding.tag # "same" THEN <<MsgPadding>> ELSE <<>>)
               \o (IF p1.stride # 1 THEN <<MsgStride>> ELSE <<>>)
        m   == [cls |-> "ResidualBlock", in_channels |-> p1.in_channels,
                out_channels |-> p1.out_channels, kernel_size |-> p1.kernel_size, stride |-> 1]
    IN  Ret(m, p1, SetIdx(cid, 1, p1.out_channels), out)

Branch_Conv2dNext(p, cid) ==
    LET p1  == IF p.in_channels = -1 THEN SetAttr(p, "in_channels", Idx(cid, 1)) ELSE p
        out == (IF p1.out_channels # p1.in_channels THEN <<MsgNext>> ELSE <<>>)
               \o (IF p1.padding.tag # "same" THEN <<MsgPadding>> ELSE <<>>)
               \o (IF p1.stride # 1 THEN <<MsgStride>> ELSE <<>>)
        m   == [cls |-> "ConvNeXtBlock", in_channels |-> p1.in_channels,
                out_channels |-> p1.out_channels, kernel_size |-> 7]
    IN  Ret(m, p1, SetIdx(cid, 1, p1.out_channels), out)

Branch_ConvTranspose2d(p, cid) ==
    LET p1 == IF p.in_channels = -1 THEN SetAttr(p, "in_channels", Idx(cid, 1)) ELSE p
        m  == [cls |-> "ConvTranspose2d", in_channels |-> p1.in_channels,
               out_channels |-> p1.out_channels, kernel_size |-> p1.kernel_size,
               stride |-> p1.stride]
        d1 == SetIdx(cid, 1, p1.out_channels)
    IN  IF ~InRange(d1, 2) THEN Raise("IndexError", p1, d1, <<>>)
        ELSE LET d2 == SetIdx(d1, 2, Idx(d1, 2) * Idx(p1.stride, 0))
             IN  IF ~InRange(d2, 3) THEN Raise("IndexError", p1, d2, <<>>)
                 ELSE Ret(m, p1, SetIdx(d2, 3, Idx(d2, 3) * Idx(p1.stride, 1)), <<>>)

Branch_MaxPool1d(p, cid) ==
    LET p1 == IF "stride" \notin DOMAIN p THEN SetAttr(p, "stride", p.kernel_size) ELSE p
        m  == [cls |-> "MaxPool1d", kernel_size |-> p1.kernel_size, stride |-> p1.stride]
    IN  IF ~InRange(cid, 2) THEN Raise("IndexError", p1, cid, <<>>)
        ELSE Ret(m, p1, SetIdx(cid, 2, Idx(cid, 2) \div p1.kernel_size), <<>>)

\* the pooled sizes written one entry too early
Branch_MaxPool2d_ShiftedAxes(p, cid) ==
    LET p1 == IF "stride" \notin DOMAIN p THEN SetAttr(p, "stride", p.kernel_size) ELSE p
        m  == [cls |-> "MaxPool2d", kernel_size |-> p1.kernel_size, stride |-> p1.stride]
    IN  IF ~InRange(cid, 2) THEN Raise("IndexError", p1, cid, <<>>)
        ELSE Ret(m, p1, SetIdx(SetIdx(cid, 1, Idx(cid, 1) \div Idx(p1.kernel_size, 0)), 2,
                               Idx(cid, 2) \div Idx(p1.kernel_size, 1)), <<>>)

Branch_MaxPool2d(p, cid) ==
    LET p1 == IF "stride" \notin DOMAIN p THEN SetAttr(p, "stride", p.kernel_size) ELSE p
        m  == [cls |-> "MaxPool2d", kernel_size |-> p1.kernel_size, stride |-> p1.stride]
    IN  IF ~InRange(cid, 2) THEN Raise("IndexError", p1, cid, <<>>)
        ELSE LET d2 == SetIdx(cid, 2, Idx(cid, 2) \div Idx(p1.kernel_size, 0))
             IN  IF ~InRange(d2, 3) THEN Raise("IndexError", p1, d2, <<>>)
                 ELSE Ret(m, p1, SetIdx(d2, 3, Idx(d2, 3) \div Idx(p1.kernel_size, 1)), <<>>)

Branch_Linear(p, cid) ==
    LET p1 == IF p.in_features = -1 THEN SetAttr(p, "in_features", Last(cid)) ELSE p
        m  == [cls |-> "Linear", in_features |-> p1.in_features, out_features |-> p1.out_features]
    IN  Ret(m, p1, SetLast(cid, p1.out_features), <<>>)

\* 'Activation': the parameter is the activation name itself, carried here
\* as [activation_type |-> name]
Branch_Activation(p, cid) ==
    LET r == f_get_activation(p.activation_type)
    IN  IF r.raised # "" THEN Raise(r.raised, p, cid, <<>>) ELSE Ret(r.activation, p, cid, <<>>)

Branch_Dropout(p, cid) == Ret([cls |-> "Dropout", p |-> p.p], p, cid, <<>>)

Branch_Flatten(p, cid) ==
    IF ~InRange(cid, 2) THEN Raise("IndexError", p, cid, <<>>)
    ELSE Ret([cls |-> "Flatten", start_dim |-> p.start_dim], p,
             <<Idx(cid, 0), Idx(cid, 1) * Idx(cid, 2)>>, <<>>)

IsGreaterThanOne(c) == c > 1

Branch_Squeeze(p, cid) ==
    Ret([cls |-> "nnSqueeze", dim |-> p.dim], p, SelectSeq(cid, IsGreaterThanOne), <<>>)

Branch_Permute(p, cid) ==
    IF \E i \in 1..Len(p.shape) : ~InRange(cid, p.shape[i]) THEN Raise("IndexError", p, cid, <<>>)
    ELSE Ret([cls |-> "nnPermute", shape |-> p.shape], p,
             [i \in 1..Len(p.shape) |-> Idx(cid, p.shape[i])], <<>>)

\* 'Mean' and 'Max' differ in the class they construct only
Reduction(cls, p, cid) ==
    LET p1 == IF "keepdim" \notin DOMAIN p THEN SetAttr(p, "keepdim", FALSE) ELSE p
        m  == [cls |-> cls, dim |-> p1.dim, keepdim |-> p1.keepdim]
    IN  IF p1.keepdim = FALSE THEN Ret(m, p1, <<Idx(cid, 0), Idx(cid, 1)>>, <<>>)
        ELSE Ret(m, p1, cid, <<>>)

Branch_Mean(p, cid) == Reduction("nnMean", p, cid)

Branch_Max(p, cid) == Reduction("nnMax", p, cid)

Branch_AutoPoolWeight(p, cid) ==
    IF ~InRange(cid, 3) THEN Raise("IndexError", p, cid, <<>>)
    ELSE Ret([cls |-> "nnAutoPoolWeight"], p, SetIdx(cid, 3, 1), <<>>)

\* 'AutoPoolWeightSplit' and 'SoftmaxWeight' differ in the class they construct only
SplitPool(cls, p, cid) ==
    LET m  == [cls |-> cls, nb_channel |-> Idx(cid, 1)]
        d1 == SetIdx(cid, 1, Idx(cid, 1) \div 2)
    IN  IF ~InRange(d1, 3) THEN Raise("IndexError", p, d1, <<>>)
        ELSE Ret(m, p, SetIdx(d1, 3, 1), <<>>)

Branch_AutoPoolWeightSplit(p, cid) == SplitPool("nnAutoPoolWeightSplit", p, cid)

Branch_SoftmaxWeight(p, cid) == SplitPool("nnSoftmaxWeight", p, cid)

Branch_AbsLayer(p, cid) == Ret([cls |-> "nnAbs"], p, cid, <<>>)

Branch_DoubleChannel(p, cid) == Ret([cls |-> "nnEmpty"], p, SetIdx(cid, 1, Idx(cid, 1) * 2), <<>>)

\* the final else: the message is printed, module stays unbound and the
\* return statement raises
MsgUnknown == "UNKNOWN module"

Branch_Unknown(p, cid) == Raise("UnboundLocalError", p, cid, <<MsgUnknown>>)

\* the type tags of the if/elif chain
ModuleTypes ==
    {"LayerNorm", "BatchNorm1d", "BatchNorm1dT", "BatchNorm2d", "SincNet", "Conv1d",
     "Conv1dTCN", "Conv2d", "Conv2dDS", "Conv2dRes", "Conv2dNext", "ConvTranspose2d",
     "MaxPool1d", "MaxPool2d", "Linear", "Activation", "Dropout", "Flatten", "Squeeze",
     "Permute", "Mean", "Max", "AutoPoolWeight", "AutoPoolWeightSplit", "SoftmaxWeight",
     "AbsLayer", "DoubleChannel"}

f_parse_component(module_type, p, cid) ==
    CASE module_type = "LayerNorm" -> Branch_LayerNorm(p, cid)
      [] module_type = "BatchNorm1d" -> Branch_BatchNorm1d(p, cid)
      [] module_type = "BatchNorm1dT" -> Branch_BatchNorm1dT(p, cid)
      [] module_type = "BatchNorm2d" -> Branch_BatchNorm2d(p, cid)
      [] module_type = "SincNet" -> Branch_SincNet(p, cid)
      [] module_type = "Conv1d" -> Branch_Conv1d(p, cid)
      [] module_type = "Conv1dTCN" -> Branch_Conv1dTCN(p, cid)
      [] module_type = "Conv2d" -> Branch_Conv2d(p, cid)
      [] module_type = "Conv2dDS" -> Branch_Conv2dDS(p, cid)
      [] module_type = "Conv2dRes" -> Branch_Conv2dRes(p, cid)
      [] module_type = "Conv2dNext" -> Branch_Conv2dNext(p, cid)
      [] module_type = "ConvTranspose2d" -> Branch_ConvTranspose2d(p, cid)
      [] module_type = "MaxPool1d" -> Branch_MaxPool1d(p, cid)
      [] module_type = "MaxPool2d" -> Branch_MaxPool2d(p, cid)
      [] module_type = "Linear" -> Branch_Linear(p, cid)
      [] module_type = "Activation" -> Branch_Activation(p, cid)
      [] module_type = "Dropout" -> Branch_Dropout(p, cid)
      [] module_type = "Flatten" -> Branch_Flatten(p, cid)
      [] module_type = "Squeeze" -> Branch_Squeeze(p, cid)
      [] module_type = "Permute" -> Branch_Permute(p, cid)
      [] module_type = "Mean" -> Branch_Mean(p, cid)
      [] module_type = "Max" -> Branch_Max(p, cid)
      [] module_type = "AutoPoolWeight" -> Branch_AutoPoolWeight(p, cid)
      [] module_type = "AutoPoolWeightSplit" -> Branch_AutoPoolWeightSplit(p, cid)
      [] module_type = "SoftmaxWeight" -> Branch_SoftmaxWeight(p, cid)
      [] module_type = "AbsLayer" -> Branch_AbsLayer(p, cid)
      [] module_type = "DoubleChannel" -> Branch_DoubleChannel(p, cid)
      [] OTHER -> Branch_Unknown(p, cid)

-----------------------------------------------------------------------------
(* Inputs: the shapes (B, D), (B, C, T) and (B, C, H, W) of the source's    *)
(* comments, and small parameter dictionaries for each type tag.            *)

Batches == 1..2
Chans == 1..MaxChan
Dims == 1..MaxDim

Shapes ==
    {<<b, d>> : b \in Batches, d \in Dims}
    \cup {<<b, c, t>> : b \in Batches, c \in Chans, t \in Dims}
    \cup {<<b, c, h, w>> : b \in Batches, c \in Chans, h \in Dims, w \in Dims}

InCh == {-1, 1, MaxChan}
OutCh == {1, MaxChan}
Kernels == 1..MaxKernel
Strides == 1..3
Kernels2 == Kernels \X Kernels
Strides2 == {<<1, 1>>, <<1, 2>>, <<2, 2>>}
Paddings == {[tag |-> "valid"], [tag |-> "same"], [tag |-> "num", n |-> 1]}

LayerNormParams == [normalized_shape : {<<-1>>, <<MaxDim>>, <<MaxChan, MaxDim>>}]
BatchNorm1dParams ==
    [num_features : InCh] \cup [num_features : InCh, affine : BOOLEAN]
BatchNormParams == [num_features : InCh]
Conv1dParams == [in_channels : InCh, out_channels : OutCh, kernel_size : Dims, stride : Strides]
Conv1dTCNParams ==
    [in_channels : InCh, num_channels : {<<c>> : c \in OutCh} \cup {<<1, c>> : c \in OutCh}]
Conv2dParams ==
    [in_channels : InCh, out_channels : OutCh, kernel_size : Kernels2, stride : Strides2]
    \cup [in_channels : InCh, out_channels : OutCh, kernel_size : Kernels2, stride : Strides2,
          padding : Paddings]
Conv2dResParams ==
    [in_channels : InCh, out_channels : OutCh, kernel_size : {<<k, k>> : k \in Kernels},
     stride : Strides, padding : {[tag |-> "valid"], [tag |-> "same"]}]
ConvTranspose2dParams ==
    [in_channels : InCh, out_channels : OutCh, kernel_size : Kernels2, stride : Strides2]
MaxPool1dParams == [kernel_size : Kernels] \cup [kernel_size : Kernels, stride : Strides]
MaxPool2dParams == [kernel_size : Kernels2] \cup [kernel_size : Kernels2, stride : Strides2]
LinearParams == [in_features : InCh, out_features : OutCh]
ActivationParams == [activation_type : KnownActivations \cup {"Tanh"}]
\* the dropout probability in tenths
DropoutParams == [p : {2, 5}]
FlattenParams == [start_dim : 1..2]
AxisParams == [dim : 0..3]
ReductionParams == [dim : 0..3] \cup [dim : 0..3, keepdim : BOOLEAN]
IsPermutation(q) == \A i \in 0..(Len(q) - 1) : \E j \in 1..Len(q) : q[j] = i
PermuteParams ==
    [shape : UNION {{q \in [1..n -> 0..(n - 1)] : IsPermutation(q)} : n \in 2..4}]
NoParams == [name : {"none"}]
UnknownTypes == {"Conv3d", "conv2d"}

-----------------------------------------------------------------------------
(* State: the shape of the network's input, the tracked shape, the latest   *)
(* call's arguments as given, the parameter dictionary as the call left it, *)
(* the module it built, what was printed, and the modules collected so far. *)

NoCall == [module_type |-> "None"]

Init ==
    /\ pc = "ready"
    /\ input_dim \in Shapes
    /\ current_input_dim = input_dim
    /\ call = NoCall
    /\ param = None
    /\ module = None
    /\ stdout = <<>>
    /\ layers = <<>>

\* module, current_input_dim = f_parse_component(module_type, param, current_input_dim)
Apply(module_type, p) ==
    LET r == f_parse_component(module_type, p, current_input_dim)
    IN  /\ call' = [module_type |-> module_type, param |-> p,
                    current_input_dim |-> current_input_dim]
        /\ param' = r.param
        /\ module' = r.module
        /\ current_input_dim' = r.current_input_dim
        /\ stdout' = stdout \o r.stdout
        /\ pc' = IF r.raised = "" THEN "returned" ELSE r.raised
        /\ layers' = IF r.raised = "" THEN Append(layers, r.module) ELSE layers
        /\ UNCHANGED input_dim

\* the calls below are each one call on a fresh shape
Fresh == pc = "ready"

Call_LayerNorm == Fresh /\ \E p \in LayerNormParams : Apply("LayerNorm", p)
Call_BatchNorm1d == Fresh /\ \E p \in BatchNorm1dParams : Apply("BatchNorm1d", p)
Call_BatchNorm1dT == Fresh /\ \E p \in BatchNormParams : Apply("BatchNorm1dT", p)
Call_BatchNorm2d == Fresh /\ \E p \in BatchNormParams : Apply("BatchNorm2d", p)
Call_SincNet == Fresh /\ \E p \in Conv1dParams : Apply("SincNet", p)
Call_Conv1d == Fresh /\ \E p \in Conv1dParams : Apply("Conv1d", p)
Call_Conv1dTCN == Fresh /\ \E p \in Conv1dTCNParams : Apply("Conv1dTCN", p)
Call_Conv2d == Fresh /\ \E p \in Conv2dParams : Apply("Conv2d", p)
Call_Conv2dDS == Fresh /\ \E p \in Conv2dParams : Apply("Conv2dDS", p)
Call_Conv2dRes == Fresh /\ \E p \in Conv2dResParams : Apply("Conv2dRes", p)
Call_Conv2dNext == Fresh /\ \E p \in Conv2dResParams : Apply("Conv2dNext", p)
Call_ConvTranspose2d == Fresh /\ \E p \in ConvTranspose2dParams : Apply("ConvTranspose2d", p)
Call_MaxPool1d == Fresh /\ \E p \in MaxPool1dParams : Apply("MaxPool1d", p)
Call_MaxPool2d == Fresh /\ \E p \in MaxPool2dParams : Apply("MaxPool2d", p)
Call_Linear == Fresh /\ \E p \in LinearParams : Apply("Linear", p)
Call_Activation == Fresh /\ \E p \in ActivationParams : Apply("Activation", p)
Call_Dropout == Fresh /\ \E p \in DropoutParams : Apply("Dropout", p)
Call_Flatten == Fresh /\ \E p \in FlattenParams : Apply("Flatten", p)
Call_Squeeze == Fresh /\ \E p \in AxisParams : Apply("Squeeze", p)
Call_Permute == Fresh /\ \E p \in PermuteParams : Apply("Permute", p)
Call_Mean == Fresh /\ \E p \in ReductionParams : Apply("Mean", p)
Call_Max == Fresh /\ \E p \in ReductionParams : Apply("Max", p)
Call_AutoPoolWeight == Fresh /\ \E p \in NoParams : Apply("AutoPoolWeight", p)
Call_AutoPoolWeightSplit == Fresh /\ \E p \in NoParams : Apply("AutoPoolWeightSplit", p)
Call_SoftmaxWeight == Fresh /\ \E p \in NoParams : Apply("SoftmaxWeight", p)
Call_AbsLayer == Fresh /\ \E p \in NoParams : Apply("AbsLayer", p)
Call_DoubleChannel == Fresh /\ \E p \in NoParams : Apply("DoubleChannel", p)
Call_Unknown == Fresh /\ \E t \in UnknownTypes, p \in NoParams : Apply(t, p)

Next ==
    \/ Call_LayerNorm \/ Call_BatchNorm1d \/ Call_BatchNorm1dT \/ Call_BatchNorm2d
    \/ Call_SincNet \/ Call_Conv1d \/ Call_Conv1dTCN
    \/ Call_Conv2d \/ Call_Conv2dDS \/ Call_Conv2dRes \/ Call_Conv2dNext
    \/ Call_ConvTranspose2d \/ Call_MaxPool1d \/ Call_MaxPool2d \/ Call_Linear
    \/ Call_Activation \/ Call_Dropout \/ Call_Flatten \/ Call_Squeeze \/ Call_Permute
    \/ Call_Mean \/ Call_Max
    \/ Call_AutoPoolWeight \/ Call_AutoPoolWeightSplit \/ Call_SoftmaxWeight
    \/ Call_AbsLayer \/ Call_DoubleChannel \/ Call_Unknown

Spec == Init /\ [][Next]_vars

-----------------------------------------------------------------------------
(* A network description parsed layer after layer: each call receives the  *)
(* shape the previous call returned, and the modules are collected.  The    *)
(* parsing stops at the first call that raises.                             *)

\* two channels, a count no layer of the descriptions gives as out_channels
ChainShapes == {<<1, 2, MaxDim>>, <<1, 2, MaxDim, MaxDim>>}

InitChain ==
    /\ pc = "ready"
    /\ input_dim \in ChainShapes
    /\ current_input_dim = input_dim
    /\ call = NoCall
    /\ param = None
    /\ module = None
    /\ stdout = <<>>
    /\ layers = <<>>

\* the layers of the descriptions: one kernel and stride, the channels vary
ChainConv1d == [in_channels : {-1}, out_channels : OutCh, kernel_size : {1}, stride : {1}]
ChainConv2d ==
    [in_channels : {-1}, out_channels : OutCh, kernel_size : {<<1, 1>>}, stride : {<<1, 1>>}]
ChainSincNet == [in_channels |-> -1, out_channels |-> 1, kernel_size |-> 1, stride |-> 1]
ChainConv1dTCN == [in_channels |-> -1, num_channels |-> <<1, MaxChan>>]
ChainConv2dDS ==
    [in_channels |-> -1, out_channels |-> 1, kernel_size |-> <<1, 1>>, stride |-> <<1, 1>>]
ChainConv2dRes ==
    [in_channels |-> 1, out_channels |-> MaxChan, kernel_size |-> <<1, 1>>, stride |-> 1,
     padding |-> [tag |-> "same"]]
ChainConv2dNext ==
    [in_channels |-> -1, out_channels |-> 1, kernel_size |-> <<1, 1>>, stride |-> 1,
     padding |-> [tag |-> "same"]]
ChainConvTranspose2d ==
    [in_channels |-> -1, out_channels |-> MaxChan, kernel_size |-> <<1, 1>>,
     stride |-> <<1, 1>>]

Parsing == pc \in {"ready", "returned"} /\ Len(layers) < MaxLayers

Chain_Conv ==
    /\ Parsing
    /\ \/ Apply("SincNet", ChainSincNet)
       \/ \E p \in ChainConv1d : Apply("Conv1d", p)
       \/ Apply("Conv1dTCN", ChainConv1dTCN)
       \/ \E p \in ChainConv2d : Apply("Conv2d", p)
       \/ Apply("Conv2dDS", ChainConv2dDS)
       \/ Apply("Conv2dRes", ChainConv2dRes)
       \/ Apply("Conv2dNext", ChainConv2dNext)
       \/ Apply("ConvTranspose2d", ChainConvTranspose2d)

Chain_Keep ==
    /\ Parsing
    /\ \/ Apply("LayerNorm", [normalized_shape |-> <<-1>>])
       \/ Apply("BatchNorm1d", [num_features |-> -1])
       \/ Apply("BatchNorm1dT", [num_features |-> -1])
       \/ Apply("BatchNorm2d", [num_features |-> -1])
       \/ Apply("Activation", [activation_type |-> "ReLU"])
       \/ Apply("Dropout", [p |-> 5])
       \/ Apply("AbsLayer", [name |-> "none"])
       \/ Apply("MaxPool1d", [kernel_size |-> 2])
       \/ Apply("MaxPool2d", [kernel_size |-> <<2, 2>>])

Chain_Other ==
    /\ Parsing
    /\ \/ Apply("DoubleChannel", [name |-> "none"])
       \/ Apply("Permute", [shape |-> <<0, 2, 1>>])

NextChain == Chain_Conv \/ Chain_Keep \/ Chain_Other

SpecChain == InitChain /\ [][NextChain]_vars

-----------------------------------------------------------------------------
(* Properties.  Returned says the latest call returned its pair; Given and  *)
(* InDim are the parameter dictionary and the shape it was called with.     *)

Returned(t) == pc = "returned" /\ call.module_type = t
Given == call.param
InDim == call.current_input_dim

\* what a parameter given as g must be once filled from the value fill
Filled(g, fill) == IF g = -1 THEN fill ELSE g

InChannelTypes ==
    {"SincNet", "Conv1d", "Conv2d", "Conv2dRes", "Conv2dNext", "ConvTranspose2d"}

\* C1: a parameter given as -1 reaches the constructor as the entry of the
\* incoming shape the claim names, and an explicit value reaches it as given:
\* in_channels and BatchNorm2d's num_features from entry 1, num_features of
\* BatchNorm1d / BatchNorm1dT and in_features of Linear from the last entry,
\* normalized_shape of LayerNorm from the entries after the first.
C1_AutoFill ==
    /\ \A t \in InChannelTypes :
          Returned(t) => module.in_channels = Filled(Given.in_channels, InDim[2])
    /\ Returned("Conv1dTCN") => module.num_inputs = Filled(Given.in_channels, InDim[2])
    /\ Returned("Conv2dDS") =>
          module.depthwise.in_channels = Filled(Given.in_channels, InDim[2])
    /\ Returned("BatchNorm2d") => module.num_features = Filled(Given.num_features, InDim[2])
    /\ \A t \in {"BatchNorm1d", "BatchNorm1dT"} :
          Returned(t) => module.num_features = Filled(Given.num_features, InDim[Len(InDim)])
    /\ Returned("Linear") => module.in_features = Filled(Given.in_features, InDim[Len(InDim)])
    /\ Returned("LayerNorm") =>
          module.normalized_shape =
              IF Given.normalized_shape = <<-1>>
              THEN [i \in 1..(Len(InDim) - 1) |-> InDim[i + 1]]
              ELSE Given.normalized_shape

\* a BatchNorm2d given -1 on a shape whose entry 1 differs from its last entry
C1_Witness ==
    /\ Returned("BatchNorm2d")
    /\ Given.num_features = -1
    /\ InDim[2] # InDim[Len(InDim)]
    /\ module.num_features = InDim[2]

\* the number of positions p >= 0 at which a kernel of size k fits in a
\* vector of length L when moved by steps of s
KernelPositions(L, k, s) == Cardinality({q \in 0..L : q * s + k <= L})

\* C3: after Conv1d or SincNet on a time length L with kernel k and stride s,
\* the tracked time length n is floor((L-k)/s)+1, which for L >= k is the
\* number of kernel positions and at least 1; the channel entry is
\* out_channels and the batch entry is unchanged.
C3_NextSize ==
    \A t \in {"Conv1d", "SincNet"} :
        Returned(t) =>
            LET L == InDim[3]
                k == Given.kernel_size
                st == Given.stride
                n == current_input_dim[3]
            IN  /\ (n - 1) * st <= L - k
                /\ L - k < n * st
                /\ L >= k => n = KernelPositions(L, k, st) /\ n >= 1
                /\ current_input_dim[2] = Given.out_channels
                /\ current_input_dim[1] = InDim[1]
                /\ Len(current_input_dim) = Len(InDim)

\* a strided Conv1d whose kernel does not end on the last sample
C3_Witness ==
    /\ Returned("Conv1d")
    /\ Given.stride = 2
    /\ Given.kernel_size = 2
    /\ InDim[3] = 3
    /\ current_input_dim[3] = 1

\* the classes of the convolution-type modules, and the channels they give
ConvClasses ==
    {"SincConv_fast", "Conv1d", "TemporalConvNet", "Conv2d", "depthwise_separable_conv",
     "ResidualBlock", "ConvNeXtBlock", "ConvTranspose2d"}

OutChannelsOf(m) ==
    CASE m.cls = "TemporalConvNet" -> m.num_channels[Len(m.num_channels)]
      [] m.cls = "depthwise_separable_conv" -> m.pointwise.out_channels
      [] OTHER -> m.out_channels

InChannelsOf(m) ==
    CASE m.cls = "TemporalConvNet" -> m.num_inputs
      [] m.cls = "depthwise_separable_conv" -> m.depthwise.in_channels
      [] OTHER -> m.in_channels

\* the classes built for LayerNorm, BatchNorm1d, BatchNorm1dT, BatchNorm2d,
\* Activation, Dropout, AbsLayer, MaxPool1d and MaxPool2d
KeepClasses ==
    {"LayerNorm", "BatchNorm1d", "nnBatchNorm1dT", "BatchNorm2d", "Dropout", "nnAbs",
     "MaxPool1d", "MaxPool2d"} \cup KnownActivations

ConvTypes == InChannelTypes \cup {"Conv1dTCN", "Conv2dDS"}
UnchangedTypes ==
    {"LayerNorm", "BatchNorm1d", "BatchNorm1dT", "BatchNorm2d", "Activation", "Dropout",
     "AbsLayer"}

\* the channels a convolution placed after the modules ls must take: those
\* of the nearest convolution-type module, or c0 when there is none, as long
\* as only channel-keeping modules come after it; no value otherwise
RECURSIVE SourceChannels(_, _)
SourceChannels(ls, c0) ==
    IF ls = <<>> THEN {c0}
    ELSE LET m == ls[Len(ls)]
         IN  IF m.cls \in ConvClasses THEN {OutChannelsOf(m)}
             ELSE IF m.cls \in KeepClasses THEN SourceChannels(SubSeq(ls, 1, Len(ls) - 1), c0)
             ELSE {}

\* C2: in a description parsed layer after layer, a convolution-type layer
\* given in_channels = -1 is built with the out_channels of the nearest
\* preceding convolution-type layer (the input's channel count when there is
\* none) whenever only channel-keeping layers lie in between; and a
\* normalisation, Activation, Dropout or AbsLayer step returns the shape it
\* was given.
C2_ChannelChain ==
    /\ \A t \in ConvTypes :
          (Returned(t) /\ Given.in_channels = -1) =>
              \A src \in SourceChannels(SubSeq(layers, 1, Len(layers) - 1), input_dim[2]) :
                  InChannelsOf(module) = src
    /\ \A t \in UnchangedTypes : Returned(t) => current_input_dim = InDim

\* a convolution, then a pooling, then a convolution filled from the first
\* one's out_channels, which differ from the input's channel count
C2_Witness ==
    /\ Len(layers) = 3
    /\ layers[1].cls = "Conv2d"
    /\ layers[2].cls = "MaxPool2d"
    /\ Returned("Conv2dDS")
    /\ Given.in_channels = -1
    /\ layers[1].out_channels # input_dim[2]
    /\ module.depthwise.in_channels = layers[1].out_channels

\* the class each recognised type tag constructs (Activation apart)
ClassOf(t) ==
    CASE t = "BatchNorm1dT" -> "nnBatchNorm1dT"
      [] t = "SincNet" -> "SincConv_fast"
      [] t = "Conv1dTCN" -> "TemporalConvNet"
      [] t = "Conv2dDS" -> "depthwise_separable_conv"
      [] t = "Conv2dRes" -> "ResidualBlock"
      [] t = "Conv2dNext" -> "ConvNeXtBlock"
      [] t = "Squeeze" -> "nnSqueeze"
      [] t = "Permute" -> "nnPermute"
      [] t = "Mean" -> "nnMean"
      [] t = "Max" -> "nnMax"
      [] t = "AutoPoolWeight" -> "nnAutoPoolWeight"
      [] t = "AutoPoolWeightSplit" -> "nnAutoPoolWeightSplit"
      [] t = "SoftmaxWeight" -> "nnSoftmaxWeight"
      [] t = "AbsLayer" -> "nnAbs"
      [] t = "DoubleChannel" -> "nnEmpty"
      [] OTHER -> t

Called == call.module_type # "None"

\* C4: a recognised tag yields the module of the matching constructor; a call
\* with a tag outside the recognised set prints 'UNKNOWN module' and returns
\* with the shape unchanged; and an Activation call returns an activation
\* object whatever activation name it is given.
C4_AlwaysReturns ==
    /\ \A t \in ModuleTypes \ {"Activation"} : Returned(t) => module.cls = ClassOf(t)
    /\ (Called /\ call.module_type \notin ModuleTypes) =>
          /\ pc = "returned"
          /\ stdout = <<MsgUnknown>>
          /\ current_input_dim = InDim
    /\ (Called /\ call.module_type = "Activation") =>
          /\ pc = "returned"
          /\ module # None

\* the output size of a pooling or convolution window of size k moved by
\* steps of s over a length L padded by pad on both sides
WindowOut(L, pad, k, s) == ((L + 2 * pad - k) \div s) + 1

\* C5: MaxPool1d and MaxPool2d default a missing stride to kernel_size, and
\* each pooled axis of length L >= kernel_size is tracked as the output size
\* floor((L - kernel_size)/stride) + 1 of the pooling built, for the stride
\* it was built with, defaulted or given.
C5_PoolSize ==
    /\ \A t \in {"MaxPool1d", "MaxPool2d"} :
          Returned(t) =>
              param.stride = IF "stride" \in DOMAIN Given THEN Given.stride
                             ELSE Given.kernel_size
    /\ (Returned("MaxPool1d") /\ InDim[3] >= module.kernel_size) =>
          current_input_dim[3] = WindowOut(InDim[3], 0, module.kernel_size, module.stride)
    /\ Returned("MaxPool2d") =>
          \A a \in 1..2 :
              InDim[a + 2] >= module.kernel_size[a] =>
                  current_input_dim[a + 2] =
                      WindowOut(InDim[a + 2], 0, module.kernel_size[a], module.stride[a])

\* the padding, as a number, of a convolution that is not padded 'same'
PadOf(padding) == IF padding.tag = "num" THEN padding.n ELSE 0

\* the nn.Conv2d that decides the height and width of the module built
SpatialConv(m) == IF m.cls = "depthwise_separable_conv" THEN m.depthwise ELSE m

\* C6: on a shape (B, C, H, W), Conv2d and Conv2dDS default a missing padding
\* to 'valid'; the channel
\* entry becomes out_channels; the tracked height and width are those of the
\* module built: unchanged for padding 'same', and otherwise
\* floor((L + 2p - k)/s) + 1 per axis for its padding p and its stride s.
C6_Conv2dSize ==
    \A t \in {"Conv2d", "Conv2dDS"} :
        (Returned(t) /\ Len(InDim) = 4) =>
            LET c == SpatialConv(module)
            IN  /\ "padding" \notin DOMAIN Given => param.padding = Valid
                /\ current_input_dim[2] = Given.out_channels
                /\ \A a \in 1..2 :
                      IF c.padding.tag = "same"
                      THEN current_input_dim[a + 2] = InDim[a + 2]
                      ELSE InDim[a + 2] + 2 * PadOf(c.padding) >= c.kernel_size[a] =>
                               current_input_dim[a + 2] =
                                   WindowOut(InDim[a + 2], PadOf(c.padding), c.kernel_size[a],
                                             c.stride[a])

\* C7: after ConvTranspose2d the tracked height and width are the output
\* size (L - 1)*stride + kernel_size of the transposed convolution built,
\* and the channel entry is out_channels.
C7_TransposeSize ==
    Returned("ConvTranspose2d") =>
        /\ current_input_dim[2] = Given.out_channels
        /\ \A a \in 1..2 :
              current_input_dim[a + 2] =
                  (InDim[a + 2] - 1) * module.stride[a] + module.kernel_size[a]

RECURSIVE Product(_)
Product(l) == IF l = <<>> THEN 1 ELSE l[1] * Product(Tail(l))

\* C8: Flatten on a shape of rank 3 or 4 returns the entries before
\* start_dim followed by the product of the remaining ones, so the number of
\* elements is kept; Permute returns the given permutation of the entries.
C8_ElementsKept ==
    /\ Returned("Flatten") =>
          /\ current_input_dim =
                 SubSeq(InDim, 1, Given.start_dim)
                 \o <<Product(SubSeq(InDim, Given.start_dim + 1, Len(InDim)))>>
          /\ Product(current_input_dim) = Product(InDim)
    /\ (Returned("Permute") /\ Len(Given.shape) = Len(InDim)) =>
          /\ current_input_dim = [i \in 1..Len(InDim) |-> InDim[Given.shape[i] + 1]]
          /\ Product(current_input_dim) = Product(InDim)

\* the sequence l without its entry i
RemoveAt(l, i) == SubSeq(l, 1, i - 1) \o SubSeq(l, i + 1, Len(l))

\* C9: Squeeze with dim = d returns the shape nnSqueeze gives: the input
\* shape without entry d when that entry is 1, the input shape otherwise.
C9_SqueezeOneAxis ==
    (Returned("Squeeze") /\ Given.dim < Len(InDim)) =>
        current_input_dim =
            IF InDim[Given.dim + 1] = 1 THEN RemoveAt(InDim, Given.dim + 1) ELSE InDim

\* C10: Mean and Max over dimension d default keepdim to False and return
\* the shape of the reduction built: the input shape without entry d when
\* keepdim is False, with entry d set to 1 when it is True.
C10_ReductionShape ==
    \A t \in {"Mean", "Max"} :
        (Returned(t) /\ Given.dim < Len(InDim)) =>
            /\ "keepdim" \notin DOMAIN Given => module.keepdim = FALSE
            /\ current_input_dim =
                   IF module.keepdim THEN [InDim EXCEPT ![Given.dim + 1] = 1]
                   ELSE RemoveAt(InDim, Given.dim + 1)

-----------------------------------------------------------------------------
(* The forward passes of the attention poolings, on shapes: each takes the  *)
(* module and the shape (B, C, H, W) of its input X and gives the shape of  *)
(* its output, or the exception the tensor arithmetic raises.               *)

Min(a, b) == IF a < b THEN a ELSE b

\* X[:, :n] and X[:, n:], for n >= 0
SliceChannelsTo(x, n) == SetIdx(x, 1, Min(n, Idx(x, 1)))
SliceChannelsFrom(x, n) == SetIdx(x, 1, Idx(x, 1) - Min(n, Idx(x, 1)))

\* f_autopool_weights: every step (scaling, subtracting the kept-dim maximum,
\* exp, dividing by the kept-dim sum) keeps the shape of data
f_autopool_weights(data) == data

\* a * b for two tensors whose shapes differ in the channel entry at most:
\* the entries must be equal or one of them 1
Multiply(a, b) ==
    IF Idx(a, 1) = Idx(b, 1) \/ Idx(b, 1) = 1 THEN [raised |-> "", shape |-> a]
    ELSE IF Idx(a, 1) = 1 THEN [raised |-> "", shape |-> b]
    ELSE [raised |-> "RuntimeError", shape |-> a]

\* torch.sum(..., dim=3, keepdim=True)
SumLastKeepdim(r) == [raised |-> r.raised, shape |-> SetIdx(r.shape, 3, 1)]

\* softmax over dim 3 keeps the shape of its argument
nnSoftmaxWeight_forward(m, x) ==
    SumLastKeepdim(Multiply(SliceChannelsTo(x, m.nb_channel \div 2),
                            SliceChannelsFrom(x, m.nb_channel \div 2)))

nnAutoPoolWeightSplit_forward(m, x) ==
    SumLastKeepdim(Multiply(SliceChannelsTo(x, m.nb_channel \div 2),
                            f_autopool_weights(SliceChannelsFrom(x, m.nb_channel \div 2))))

nnAutoPoolWeight_forward(m, x) == SumLastKeepdim(Multiply(x, f_autopool_weights(x)))

\* the forward pass of the module a pooling call built
PoolForward(m, x) ==
    CASE m.cls = "nnSoftmaxWeight" -> nnSoftmaxWeight_forward(m, x)
      [] m.cls = "nnAutoPoolWeightSplit" -> nnAutoPoolWeightSplit_forward(m, x)
      [] m.cls = "nnAutoPoolWeight" -> nnAutoPoolWeight_forward(m, x)

\* C11: on a shape (B, C, H, W) with C >= 2, odd or even, AutoPoolWeightSplit
\* and SoftmaxWeight return (B, floor(C/2), H, 1), and this is the shape the
\* forward pass of the module built gives on that input; AutoPoolWeight
\* returns (B, C, H, 1).
C11_SplitPoolShape ==
    /\ \A t \in {"AutoPoolWeightSplit", "SoftmaxWeight"} :
          (Returned(t) /\ InDim[2] >= 2) =>
              /\ current_input_dim = <<InDim[1], InDim[2] \div 2, InDim[3], 1>>
              /\ PoolForward(module, InDim) = [raised |-> "", shape |-> current_input_dim]
    /\ Returned("AutoPoolWeight") =>
          /\ current_input_dim = <<InDim[1], InDim[2], InDim[3], 1>>
          /\ PoolForward(module, InDim) = [raised |-> "", shape |-> current_input_dim]

====
